---- MODULE Spec2Model ----
(***************************************************************************)
(* Peer pool of status-go (package peers): PeerPool, its event-dispatch    *)
(* task, and the per-topic TopicPool with its consumer and discovery       *)
(* worker tasks.                                                           *)
(*                                                                         *)
(* Granularity.  Code that runs under TopicPool.mu is one step.  A step    *)
(* ends where a task blocks (a channel send on a full channel, a           *)
(* WaitGroup.Wait) and between an unlocked read of shared state and the    *)
(* use of what was read (SearchRunning() followed by a send on t.period,   *)
(* StopSearch's reads of t.quit / t.period).                               *)
(***************************************************************************)
EXTENDS Integers, Sequences, FiniteSets, TLC

\* ------------------------------------------------------------- bounds
MaxNodes == 2        \* node ids that discovery and the server can report
MaxLimit == 2        \* largest configured max
MaxTicks == 2        \* clock ticks (of half an expiration period) modelled
MaxStarts == 2       \* StartSearch calls that start a search, per topic pool
MinCount == 1        \* connected is followed down to -MinCount
MaxToSearch == 2     \* drops are followed while toSearch is shorter than this
MaxLen == 2          \* longest Input / Data payload of a SendTxArgs

\* ---------------------------------------------------- program constants
expirationPeriod == 60
PeriodCap == 2
SelfID == 0

Nodes == 1..MaxNodes
NoNode == MaxNodes + 1
Topics == {"A", "B"}
NoTopic == ""
TopicSets == {{"A"}}
LimitPairs == {l \in (0..MaxLimit) \X (0..MaxLimit) : l[1] <= l[2]}
Configs == UNION {[T -> LimitPairs] : T \in TopicSets}
Threads == {"host", "disp"}
TickLen == expirationPeriod \div 2

VARIABLES
  config,      \* PeerPool.config: topic -> <<min, max>>
  stopOnMax,   \* PeerPool.stopOnMax
  hasCache,    \* PeerPool.cache is not nil
  cached,      \* the Cache's contents: <<topic, node>> pairs
  now,         \* mclock.Now()
  discv5,      \* server.DiscV5: "nil" or "up"
  srvPeers,    \* nodes whose last event on the server's stream was PeerAdd
  hpc,         \* host: "new", "started", "stopping", "waitDisp", "stopped"
  sidx,        \* Stop's index into p.topics
  pquit,       \* PeerPool.quit: "nil", "open", "closed"
  topics,      \* PeerPool.topics
  subscribed,  \* PeerPool.serverSubscription is live
  dpc,         \* event-dispatch task position
  dev,         \* the event it is handling
  didx,        \* its index into p.topics
  toSearch,    \* handleServerPeers' toSearch
  retry,       \* handleServerPeers' retryDiscv5: "nil" or "armed"
  total,       \* the PeerAdd handler's total
  peers,       \* TopicPool.peers: topic -> (node -> peerInfo)
  connected,   \* TopicPool.connected
  running,     \* TopicPool.running
  qch,         \* quit channels made by StartSearch; t.quit is the last
  pch,         \* period channels made by StartSearch; t.period is the last
  cons,        \* consumer task of each StartSearch: "start", "loop", "done"
  wk,          \* discovery worker of each StartSearch: "run", "done"
  ss,          \* StopSearch in progress, per calling thread
  last,        \* the last TopicPool / PeerPool call and what it did
  panicked,    \* "" or the runtime panic the process died of
  args,        \* a SendTxArgs value: its Input and Data fields
  txres        \* what Valid / GetInput / sending returned for args

vars == <<config, stopOnMax, hasCache, cached, now, discv5, srvPeers, hpc, sidx, pquit, topics,
          subscribed, dpc, dev, didx, toSearch, retry, total, peers, connected,
          running, qch, pch, cons, wk, ss, last, panicked, args, txres>>

txVars == <<args, txres>>
cfgVars == <<config, stopOnMax, hasCache, txVars>>
hostVars == <<hpc, sidx, pquit, topics, subscribed>>
dispVars == <<dpc, dev, didx, toSearch, retry, total>>
poolVars == <<peers, connected, cached>>
searchVars == <<running, qch, pch, cons, wk>>

\* ------------------------------------------------------------ helpers
NoPeers == [n \in {} |-> 0]
NoEvent == [type |-> "", n |-> NoNode, delta |-> 0]
IdleSS == [pc |-> "idle", t |-> NoTopic, g |-> 0]

\* hexutil.Bytes: a nil slice, or a slice holding the bytes b
NilBytes == [nil |-> TRUE, b |-> <<>>]
Bytes(b) == [nil |-> FALSE, b |-> b]
NoTx == [op |-> "", valid |-> FALSE, input |-> NilBytes, err |-> ""]

\* A call made by the last step: what it returned (ignored, repl, err), the
\* period it sent, the requests it made to the server (reqs), the change of
\* the connected counter (delta) and whether DiscV5.Close() was invoked.
Call(op, t, n) ==
  [op |-> op, t |-> t, n |-> n, ignored |-> FALSE, repl |-> NoNode,
   sent |-> "", reqs |-> {}, err |-> FALSE, delta |-> 0, closed |-> FALSE]

NoCall == Call("", NoTopic, NoNode)

SeqsOf(S) ==
  {s \in [1..Cardinality(S) -> S] : \A i, j \in 1..Cardinality(S) : i # j => s[i] # s[j]}

Min(t) == config[t][1]
Max(t) == config[t][2]

CurGen(t) == Len(qch[t])
Quit(t) == qch[t][CurGen(t)]
Period(t) == pch[t][Len(pch[t])]

ConsumersLive(t) == {g \in 1..Len(cons[t]) : cons[t][g] # "done"}
WorkersLive(t) == {g \in 1..Len(wk[t]) : wk[t][g] # "done"}

\* TopicPool.mu is held across steps only by the dispatch task, while it is
\* inside ConfirmAdded / ConfirmDropped at the send on t.period.
MuHeld(t) == dpc \in {"addSend", "dropSend"} /\ topics[didx] = t

\* NewPeerPool, called with one of the configurations cfgs and with a cache
\* (hc) or with nil
PoolOf(cfgs, hc) ==
  /\ config \in cfgs
  /\ stopOnMax \in BOOLEAN
  /\ hasCache = hc
  /\ cached = {}
  /\ now = 0
  /\ discv5 \in {"nil", "up"}
  /\ srvPeers = {}
  /\ hpc = "new"
  /\ sidx = 0
  /\ pquit = "nil"
  /\ topics = <<>>
  /\ subscribed = FALSE
  /\ dpc = "none"
  /\ dev = NoEvent
  /\ didx = 0
  /\ toSearch = <<>>
  /\ retry = "nil"
  /\ total = 0
  /\ peers = [t \in Topics |-> NoPeers]
  /\ connected = [t \in Topics |-> 0]
  /\ running = [t \in Topics |-> FALSE]
  /\ qch = [t \in Topics |-> <<>>]
  /\ pch = [t \in Topics |-> <<>>]
  /\ cons = [t \in Topics |-> <<>>]
  /\ wk = [t \in Topics |-> <<>>]
  /\ ss = [thr \in Threads |-> IdleSS]
  /\ last = NoCall
  /\ panicked = ""

NewPeerPool(hc) == PoolOf(Configs, hc)

\* No transaction is being sent
NoTransaction ==
  /\ args = [Input |-> NilBytes, Data |-> NilBytes]
  /\ txres = NoTx

\* A pool created without a cache
Init == NewPeerPool(FALSE) /\ NoTransaction

\* ------------------------------------------------- TopicPool, pure parts
PeerInfo(time) == [discoveredTime |-> time, connected |-> FALSE, requested |-> FALSE]

\* MaxReached / BelowMin on a counter value
MaxReached(c, lim) == c = lim[2]

\* BelowMin that is false until two peers are missing
BelowMinByTwo(c, lim) == c < lim[1] - 1

BelowMin(c, lim) == c < lim[1]

\* ConfirmAdded that counts a peer the pool does not track
ConfirmAddedCountsInbound(p, c, lim, n) ==
  IF n \notin DOMAIN p
    THEN [peers |-> p, connected |-> c + 1, reqs |-> {}, cont |-> TRUE]
  ELSE IF c = lim[2]
    THEN [peers |-> [p EXCEPT ![n].requested = TRUE], connected |-> c,
          reqs |-> {<<"RemovePeer", n>>}, cont |-> FALSE]
  ELSE IF ~p[n].connected
    THEN [peers |-> [p EXCEPT ![n].connected = TRUE], connected |-> c + 1,
          reqs |-> {}, cont |-> TRUE]
  ELSE [peers |-> p, connected |-> c, reqs |-> {}, cont |-> TRUE]

\* ConfirmAdded whose gate lets one peer too many through
ConfirmAddedGateLate(p, c, lim, n) ==
  IF n \notin DOMAIN p
    THEN [peers |-> p, connected |-> c, reqs |-> {}, cont |-> FALSE]
  ELSE IF c > lim[2]
    THEN [peers |-> [p EXCEPT ![n].requested = TRUE], connected |-> c,
          reqs |-> {<<"RemovePeer", n>>}, cont |-> FALSE]
  ELSE IF ~p[n].connected
    THEN [peers |-> [p EXCEPT ![n].connected = TRUE], connected |-> c + 1,
          reqs |-> {}, cont |-> TRUE]
  ELSE [peers |-> p, connected |-> c, reqs |-> {}, cont |-> TRUE]

\* ConfirmAdded up to the SearchRunning test: the peers table p and the counter
\* c after it, the requests made to the server, and whether the test of
\* SearchRunning is reached (cont).
ConfirmAddedLocked(p, c, lim, n) ==
  IF n \notin DOMAIN p
    THEN [peers |-> p, connected |-> c, reqs |-> {}, cont |-> FALSE]
  ELSE IF c = lim[2]
    THEN [peers |-> [p EXCEPT ![n].requested = TRUE], connected |-> c,
          reqs |-> {<<"RemovePeer", n>>}, cont |-> FALSE]
  ELSE IF ~p[n].connected
    THEN [peers |-> [p EXCEPT ![n].connected = TRUE], connected |-> c + 1,
          reqs |-> {}, cont |-> TRUE]
  ELSE [peers |-> p, connected |-> c, reqs |-> {}, cont |-> TRUE]

\* ConfirmAdded's test before the send of slowSync
AddedSendsSlow(isRunning, c, lim) == isRunning /\ c = lim[1]

\* ConfirmDropped that does not look at the requested flag
DropIgnoredUntrackedOnly(p, n) == n \notin DOMAIN p

\* ConfirmDropped's early returns: the drop is ignored
DropIgnored(p, n) == n \notin DOMAIN p \/ p[n].requested

\* ConfirmDropped's test before the send of fastSync
DroppedSendsFast(isRunning, c, lim) == isRunning /\ c = lim[1]

\* The cache handle NewTopicPool gives a topic pool of a PeerPool whose own
\* handle is set (pc): NewTopicPool takes no cache and leaves t.cache nil
TopicPoolCache(pc) == FALSE

\* ConfirmAdded: if t.cache != nil { t.cache.AddPeer(peer.node, t.topic) }
CacheAfterAdded(cs, tc, p, t, n) ==
  IF n \in DOMAIN p /\ tc THEN cs \cup {<<t, n>>} ELSE cs

\* ConfirmDropped: if t.cache != nil { t.cache.RemovePeer(nodeID, t.topic) }
CacheAfterDropped(cs, tc, t, n) ==
  IF tc THEN cs \ {<<t, n>>} ELSE cs

\* The replacement scan without the test of discoveredTime
ReplacementsAnyAge(p, time) == {m \in DOMAIN p : ~p[m].connected}

\* The peers ConfirmDropped's scan may return: the map is ranged over in no order
Replacements(p, time) ==
  {m \in DOMAIN p : ~p[m].connected /\ time < p[m].discoveredTime + expirationPeriod}

DeletePeer(p, n) == [m \in DOMAIN p \ {n} |-> p[m]]

\* ConfirmDropped after the send, with the replacement r the scan chose
\* (NoNode when it found none)
ConfirmDroppedRest(p, c, n, r) ==
  [peers |-> DeletePeer(p, n), connected |-> c - 1,
   reqs |-> {<<"RemovePeer", n>>} \cup (IF r = NoNode THEN {} ELSE {<<"AddPeer", r>>})]

ReplacementChoices(p, n, time) ==
  IF Replacements(DeletePeer(p, n), time) = {} THEN {NoNode}
  ELSE Replacements(DeletePeer(p, n), time)

\* processFoundNode that stores a fresh PeerInfo for a node it already tracks
FoundPeersFresh(p, n, time) ==
  [m \in DOMAIN p \cup {n} |-> IF m = n THEN PeerInfo(time) ELSE p[m]]

FoundPeers(p, n, time) ==
  IF n \in DOMAIN p THEN [p EXCEPT ![n].discoveredTime = time]
  ELSE [m \in DOMAIN p \cup {n} |-> IF m = n THEN PeerInfo(time) ELSE p[m]]

FoundAdds(p, c, lim, n) == c < lim[2] /\ ~p[n].connected

processFoundNode(p, c, lim, n, time) ==
  [peers |-> FoundPeers(p, n, time),
   reqs |-> IF FoundAdds(FoundPeers(p, n, time), c, lim, n) THEN {<<"AddPeer", n>>} ELSE {}]

\* The period handleFoundPeers sends first
InitialPeriod(c, lim) == IF c >= lim[1] THEN "slow" ELSE "fast"

\* ------------------------------------------------ search state of the pools
SearchState == [running |-> running, qch |-> qch, pch |-> pch, cons |-> cons, wk |-> wk]

NewChan == [buf |-> <<>>, closed |-> FALSE]

\* StartSearch that does not test server.DiscV5
StartSearchAnyHandle(s, t, d5) ==
  IF s.running[t] THEN s
  ELSE [running |-> [s.running EXCEPT ![t] = TRUE],
        qch |-> [s.qch EXCEPT ![t] = Append(@, "open")],
        pch |-> [s.pch EXCEPT ![t] = Append(@, NewChan)],
        cons |-> [s.cons EXCEPT ![t] = Append(@, "start")],
        wk |-> [s.wk EXCEPT ![t] = Append(@, "run")]]

\* StartSearch(server) on topic pool t, with server.DiscV5 = d5
StartSearch(s, t, d5) ==
  IF s.running[t] THEN s
  ELSE IF d5 = "nil" THEN s
  ELSE [running |-> [s.running EXCEPT ![t] = TRUE],
        qch |-> [s.qch EXCEPT ![t] = Append(@, "open")],
        pch |-> [s.pch EXCEPT ![t] = Append(@, NewChan)],
        cons |-> [s.cons EXCEPT ![t] = Append(@, "start")],
        wk |-> [s.wk EXCEPT ![t] = Append(@, "run")]]

StartSearchErr(s, t, d5) == ~s.running[t] /\ d5 = "nil"

RECURSIVE StartAll(_, _, _)
StartAll(s, ts, d5) ==
  IF ts = <<>> THEN s ELSE StartAll(StartSearch(s, Head(ts), d5), Tail(ts), d5)

SetSearch(s) ==
  /\ running' = s.running
  /\ qch' = s.qch
  /\ pch' = s.pch
  /\ cons' = s.cons
  /\ wk' = s.wk

StartsBounded(s) == \A t \in Topics : Len(s.qch[t]) <= MaxStarts

\* ------------------------------------------------------------ PeerPool.Start
Start ==
  /\ hpc = "new"
  /\ panicked = ""
  /\ IF discv5 = "nil"
       THEN /\ last' = [Call("Start", NoTopic, NoNode) EXCEPT !.err = TRUE]
            /\ UNCHANGED <<hostVars, dispVars, searchVars>>
       ELSE /\ \E order \in SeqsOf(DOMAIN config) :
                 /\ topics' = order
                 /\ SetSearch(StartAll(SearchState, order, discv5))
            /\ pquit' = "open"
            /\ subscribed' = TRUE
            /\ hpc' = "started"
            /\ dpc' = "select"
            /\ last' = Call("Start", NoTopic, NoNode)
            /\ UNCHANGED <<sidx, dev, didx, toSearch, retry, total>>
  /\ UNCHANGED <<cfgVars, now, discv5, srvPeers, poolVars, ss, panicked>>

\* ------------------------------------------------------ mclock advancing
Tick ==
  /\ now + TickLen <= MaxTicks * TickLen
  /\ now' = now + TickLen
  /\ last' = NoCall
  /\ UNCHANGED <<cfgVars, discv5, srvPeers, hostVars, dispVars, poolVars,
                 searchVars, ss, panicked>>

\* ------------------------------------------- handleFoundPeers (consumer)
SendPeriod(t, v) ==
  pch' = [pch EXCEPT ![t][Len(pch[t])].buf = Append(@, v)]

\* The first send on t.period; t.connected is read without t.mu
ConsumerStart(t) ==
  /\ panicked = ""
  /\ \E g \in 1..Len(cons[t]) :
       /\ cons[t][g] = "start"
       /\ IF Period(t).closed
            THEN /\ panicked' = "send on closed channel"
                 /\ last' = NoCall
                 /\ UNCHANGED <<pch, cons>>
            ELSE /\ Len(Period(t).buf) < PeriodCap
                 /\ SendPeriod(t, InitialPeriod(connected[t], config[t]))
                 /\ cons' = [cons EXCEPT ![t][g] = "loop"]
                 /\ last' = [Call("handleFoundPeers", t, NoNode)
                               EXCEPT !.sent = InitialPeriod(connected[t], config[t])]
                 /\ UNCHANGED panicked
  /\ UNCHANGED <<cfgVars, now, discv5, srvPeers, hostVars, dispVars, poolVars,
                 running, qch, wk, ss>>

\* The consumer without the test of node.ID against selfID
ConsumerFoundAny(t, n) ==
  /\ panicked = ""
  /\ \E g \in 1..Len(cons[t]) : cons[t][g] = "loop"
  /\ ~MuHeld(t)
  /\ LET r == processFoundNode(peers[t], connected[t], config[t], n, now)
     IN /\ peers' = [peers EXCEPT ![t] = r.peers]
        /\ last' = [Call("processFoundNode", t, n) EXCEPT !.reqs = r.reqs]
  /\ UNCHANGED <<cfgVars, now, discv5, srvPeers, hostVars, dispVars, connected, cached,
                 searchVars, ss, panicked>>

\* case node := <-found
ConsumerFound(t, n) ==
  /\ panicked = ""
  /\ \E g \in 1..Len(cons[t]) : cons[t][g] = "loop"
  /\ ~MuHeld(t)
  /\ IF n = SelfID
       THEN /\ last' = [Call("found", t, n) EXCEPT !.ignored = TRUE]
            /\ UNCHANGED peers
       ELSE LET r == processFoundNode(peers[t], connected[t], config[t], n, now)
            IN /\ peers' = [peers EXCEPT ![t] = r.peers]
               /\ last' = [Call("processFoundNode", t, n) EXCEPT !.reqs = r.reqs]
  /\ UNCHANGED <<cfgVars, now, discv5, srvPeers, hostVars, dispVars, connected, cached,
                 searchVars, ss, panicked>>

\* case <-t.quit
ConsumerQuit(t) ==
  /\ panicked = ""
  /\ \E g \in 1..Len(cons[t]) :
       /\ cons[t][g] = "loop"
       /\ Quit(t) = "closed"
       /\ cons' = [cons EXCEPT ![t][g] = "done"]
  /\ last' = NoCall
  /\ UNCHANGED <<cfgVars, now, discv5, srvPeers, hostVars, dispVars, poolVars,
                 running, qch, pch, wk, ss, panicked>>

\* --------------------------------------- DiscV5.SearchTopic (discovery worker)
\* It receives the periods sent on the channel it was started with
WorkerRecv(t) ==
  /\ panicked = ""
  /\ \E g \in 1..Len(wk[t]) :
       /\ wk[t][g] = "run"
       /\ pch[t][g].buf # <<>>
       /\ pch' = [pch EXCEPT ![t][g].buf = Tail(@)]
  /\ last' = NoCall
  /\ UNCHANGED <<cfgVars, now, discv5, srvPeers, hostVars, dispVars, poolVars,
                 running, qch, cons, wk, ss, panicked>>

\* and returns when that channel is closed
WorkerExit(t) ==
  /\ panicked = ""
  /\ \E g \in 1..Len(wk[t]) :
       /\ wk[t][g] = "run"
       /\ pch[t][g].buf = <<>>
       /\ pch[t][g].closed
       /\ wk' = [wk EXCEPT ![t][g] = "done"]
  /\ last' = NoCall
  /\ UNCHANGED <<cfgVars, now, discv5, srvPeers, hostVars, dispVars, poolVars,
                 running, qch, pch, cons, ss, panicked>>

\* ----------------------------------------------------- TopicPool.StopSearch
\* t.quit and t.period are written by StartSearch under t.mu and read by
\* StopSearch with no lock.  The dispatch task, which makes every StartSearch
\* after the first, reads what it wrote; Stop's thread may read the channel of
\* the latest StartSearch or the one before it.
QuitReads(thr, t) ==
  IF thr = "host" /\ CurGen(t) > 1 THEN {CurGen(t) - 1, CurGen(t)} ELSE {CurGen(t)}

PeriodReads(thr, t) ==
  IF thr = "host" THEN {ss[thr].g, Len(pch[t])} ELSE {Len(pch[t])}

\* StopSearch returns before closing anything
StopSearchReturns(t, g) ==
  \/ ~running[t]
  \/ CurGen(t) = 0
  \/ qch[t][g] = "closed"

\* The PeerAdd handler after its loop over p.topics, total being tot:
\* if p.stopOnMax && total == len(p.config) { server.DiscV5.Close(); server.DiscV5 = nil }
AddFinish(tot, call) ==
  /\ didx' = didx
  /\ total' = tot
  /\ dpc' = "select"
  /\ IF stopOnMax /\ tot = Cardinality(DOMAIN config)
       THEN /\ last' = [call EXCEPT !.closed = TRUE]
            /\ IF discv5 = "nil"
                 THEN panicked' = "nil pointer dereference" /\ UNCHANGED discv5
                 ELSE discv5' = "nil" /\ UNCHANGED panicked
       ELSE /\ last' = call
            /\ UNCHANGED <<discv5, panicked>>

\* The PeerAdd handler going on to the next topic pool
AddAdvance(tot, call) ==
  IF didx < Len(topics)
    THEN /\ didx' = didx + 1
         /\ dpc' = "add"
         /\ total' = tot
         /\ last' = call
         /\ UNCHANGED <<discv5, panicked>>
    ELSE AddFinish(tot, call)

\* StopSearch returning to its caller
Returned(thr, call) ==
  IF thr = "host"
    THEN /\ sidx' = sidx + 1
         /\ last' = call
         /\ UNCHANGED <<didx, dpc, total, discv5, panicked>>
    ELSE /\ AddAdvance(total, call)
         /\ UNCHANGED sidx

\* close(t.quit), after the test of t.quit found it open: the dispatch task's
\* StopSearch may have closed it in between
SSCloseQuit(thr) ==
  /\ panicked = ""
  /\ ss[thr].pc = "closeQ"
  /\ \E g \in QuitReads(thr, ss[thr].t) :
       IF qch[ss[thr].t][g] = "closed"
         THEN /\ panicked' = "close of closed channel"
              /\ UNCHANGED <<qch, ss>>
         ELSE /\ qch' = [qch EXCEPT ![ss[thr].t][g] = "closed"]
              /\ ss' = [ss EXCEPT ![thr] = [pc |-> "waitC", t |-> ss[thr].t, g |-> g]]
              /\ UNCHANGED panicked
  /\ last' = NoCall
  /\ UNCHANGED <<cfgVars, now, discv5, srvPeers, hostVars, dispVars, poolVars,
                 running, pch, cons, wk>>

\* StopSearch that also clears the counter of the pool it stops
SSWaitConsumerClears(thr) ==
  /\ panicked = ""
  /\ ss[thr].pc = "waitC"
  /\ ConsumersLive(ss[thr].t) = {}
  /\ running' = [running EXCEPT ![ss[thr].t] = FALSE]
  /\ connected' = [connected EXCEPT ![ss[thr].t] = 0]
  /\ ss' = [ss EXCEPT ![thr].pc = "closeP"]
  /\ last' = NoCall
  /\ UNCHANGED <<cfgVars, now, discv5, srvPeers, hostVars, dispVars, peers, cached,
                 qch, pch, cons, wk, panicked>>

\* consumerWG.Wait() returns; running is set to 0
SSWaitConsumer(thr) ==
  /\ panicked = ""
  /\ ss[thr].pc = "waitC"
  /\ ConsumersLive(ss[thr].t) = {}
  /\ running' = [running EXCEPT ![ss[thr].t] = FALSE]
  /\ ss' = [ss EXCEPT ![thr].pc = "closeP"]
  /\ last' = NoCall
  /\ UNCHANGED <<cfgVars, now, discv5, srvPeers, hostVars, dispVars, poolVars,
                 qch, pch, cons, wk, panicked>>

\* close(t.period)
SSClosePeriod(thr) ==
  /\ panicked = ""
  /\ ss[thr].pc = "closeP"
  /\ \E g \in PeriodReads(thr, ss[thr].t) :
       IF pch[ss[thr].t][g].closed
         THEN /\ panicked' = "close of closed channel"
              /\ UNCHANGED <<pch, ss>>
         ELSE /\ pch' = [pch EXCEPT ![ss[thr].t][g].closed = TRUE]
              /\ ss' = [ss EXCEPT ![thr].pc = "waitW"]
              /\ UNCHANGED panicked
  /\ last' = NoCall
  /\ UNCHANGED <<cfgVars, now, discv5, srvPeers, hostVars, dispVars, poolVars,
                 running, qch, cons, wk>>

\* discvWG.Wait() returns, and StopSearch with it
SSWaitWorker(thr) ==
  /\ panicked = ""
  /\ ss[thr].pc = "waitW"
  /\ WorkersLive(ss[thr].t) = {}
  /\ ss' = [ss EXCEPT ![thr] = IdleSS]
  /\ Returned(thr, Call("StopSearch", ss[thr].t, NoNode))
  /\ UNCHANGED <<cfgVars, now, srvPeers, hpc, pquit, topics, subscribed,
                 dev, toSearch, retry, poolVars, searchVars>>

\* -------------------------------------------------------------- PeerPool.Stop
\* Stop that does not test whether p.quit is closed
StopReturnsIfNil(q) == q = "nil"

\* Stop's tests of p.quit: the pool was not started, or p.quit is closed
StopReturnsAtOnce(q) == q = "nil" \/ q = "closed"

\* Stop up to its loop over p.topics:
\* close(p.quit); p.serverSubscription.Unsubscribe()
Stop ==
  /\ panicked = ""
  /\ hpc \in {"new", "started", "stopped"}
  /\ IF StopReturnsAtOnce(pquit)
       THEN /\ last' = [Call("Stop", NoTopic, NoNode) EXCEPT !.ignored = TRUE]
            /\ UNCHANGED <<hpc, sidx, pquit, subscribed, panicked>>
       ELSE IF pquit # "open"
         THEN /\ panicked' = IF pquit = "nil" THEN "close of nil channel"
                             ELSE "close of closed channel"
              /\ last' = NoCall
              /\ UNCHANGED <<hpc, sidx, pquit, subscribed>>
         ELSE /\ pquit' = "closed"
              /\ subscribed' = FALSE
              /\ hpc' = "stopping"
              /\ sidx' = 1
              /\ last' = Call("Stop", NoTopic, NoNode)
              /\ UNCHANGED panicked
  /\ UNCHANGED <<cfgVars, now, discv5, srvPeers, topics, dispVars, poolVars,
                 searchVars, ss>>

\* t.StopSearch() for the next topic pool, up to its test of t.quit
StopTopic ==
  /\ panicked = ""
  /\ hpc = "stopping"
  /\ ss["host"].pc = "idle"
  /\ sidx <= Len(topics)
  /\ LET t == topics[sidx]
     IN \E g \in QuitReads("host", t) :
          IF StopSearchReturns(t, g)
            THEN /\ sidx' = sidx + 1
                 /\ last' = [Call("StopSearch", t, NoNode) EXCEPT !.ignored = TRUE]
                 /\ UNCHANGED <<qch, ss>>
            ELSE /\ ss' = [ss EXCEPT !["host"] = [pc |-> "closeQ", t |-> t, g |-> g]]
                 /\ last' = NoCall
                 /\ UNCHANGED <<qch, sidx>>
  /\ UNCHANGED <<cfgVars, now, discv5, srvPeers, hpc, pquit, topics, subscribed,
                 dispVars, poolVars, running, pch, cons, wk, panicked>>

\* p.wg.Wait() returns, and Stop with it
StopReturn ==
  /\ panicked = ""
  /\ hpc = "stopping"
  /\ sidx > Len(topics)
  /\ dpc = "done"
  /\ hpc' = "stopped"
  /\ last' = NoCall
  /\ UNCHANGED <<cfgVars, now, discv5, srvPeers, sidx, pquit, topics, subscribed,
                 dispVars, poolVars, searchVars, ss, panicked>>

\* ------------------------------------------ handleServerPeers (dispatch task)
\* case <-p.quit
DispatchQuit ==
  /\ panicked = ""
  /\ dpc = "select"
  /\ pquit = "closed"
  /\ dpc' = "done"
  /\ last' = NoCall
  /\ UNCHANGED <<cfgVars, now, discv5, srvPeers, hostVars, dev, didx, toSearch,
                 retry, total, poolVars, searchVars, ss, panicked>>

\* The drops followed: every topic pool's counter and toSearch stay in bounds
DropInBounds ==
  /\ \A t \in DOMAIN config : connected[t] > -MinCount
  /\ Len(toSearch) < MaxToSearch

\* case event := <-events.  The server reports PeerAdd for a node that is not
\* connected and PeerDrop for one that is.
DispatchEvent(type, n) ==
  /\ panicked = ""
  /\ dpc = "select"
  /\ \/ type = "add" /\ n \notin srvPeers /\ srvPeers' = srvPeers \cup {n} /\ dpc' = "add"
     \/ type = "drop" /\ n \in srvPeers /\ srvPeers' = srvPeers \ {n} /\ dpc' = "drop"
                      /\ DropInBounds
  /\ dev' = [type |-> type, n |-> n, delta |-> 0]
  /\ didx' = 1
  /\ total' = 0
  /\ last' = NoCall
  /\ UNCHANGED <<cfgVars, now, discv5, hostVars, toSearch, retry, poolVars,
                 searchVars, ss, panicked>>

\* runListener; retryDiscv5 is left as idle unless StartDiscv5 fails
RunListener(idle) ==
  IF discv5 = "nil"
    THEN \E ok \in BOOLEAN :
           IF ok
             THEN /\ StartsBounded(StartAll(SearchState, toSearch, "up"))
                  /\ SetSearch(StartAll(SearchState, toSearch, "up"))
                  /\ discv5' = "up"
                  /\ toSearch' = <<>>
                  /\ retry' = idle
                  /\ last' = Call("runListener", NoTopic, NoNode)
             ELSE /\ retry' = "armed"
                  /\ last' = [Call("runListener", NoTopic, NoNode) EXCEPT !.err = TRUE]
                  /\ UNCHANGED <<discv5, toSearch, searchVars>>
    ELSE /\ StartsBounded(StartAll(SearchState, toSearch, discv5))
         /\ SetSearch(StartAll(SearchState, toSearch, discv5))
         /\ toSearch' = <<>>
         /\ retry' = idle
         /\ last' = Call("runListener", NoTopic, NoNode)
         /\ UNCHANGED discv5

\* case <-retryDiscv5
DispatchRetry ==
  /\ panicked = ""
  /\ dpc = "select"
  /\ retry = "armed"
  /\ RunListener("nil")
  /\ UNCHANGED <<cfgVars, now, srvPeers, hostVars, dpc, dev, didx, total,
                 poolVars, ss, panicked>>

\* The PeerAdd handler after t.ConfirmAdded returned with t.connected = c:
\* if p.stopOnMax && t.MaxReached() { total++; t.StopSearch() }, StopSearch
\* up to consumerWG.Wait()
AfterConfirmAdded(t, c, call) ==
  IF stopOnMax /\ MaxReached(c, config[t])
    THEN IF StopSearchReturns(t, CurGen(t))
           THEN /\ AddAdvance(total + 1, call)
                /\ UNCHANGED <<qch, ss>>
           ELSE /\ qch' = [qch EXCEPT ![t][CurGen(t)] = "closed"]
                /\ ss' = [ss EXCEPT !["disp"] = [pc |-> "waitC", t |-> t, g |-> CurGen(t)]]
                /\ dpc' = "addStop"
                /\ total' = total + 1
                /\ last' = call
                /\ UNCHANGED <<didx, discv5, panicked>>
    ELSE /\ AddAdvance(total, call)
         /\ UNCHANGED <<qch, ss>>

\* PeerEventTypeAdd: t.ConfirmAdded up to the send on t.period
AddConfirm ==
  /\ panicked = ""
  /\ dpc = "add"
  /\ LET t == topics[didx]
         r == ConfirmAddedLocked(peers[t], connected[t], config[t], dev.n)
         call == [Call("ConfirmAdded", t, dev.n)
                    EXCEPT !.reqs = r.reqs, !.delta = r.connected - connected[t],
                           !.ignored = dev.n \notin DOMAIN peers[t]]
     IN /\ peers' = [peers EXCEPT ![t] = r.peers]
        /\ connected' = [connected EXCEPT ![t] = r.connected]
        /\ cached' = CacheAfterAdded(cached, TopicPoolCache(hasCache), peers[t], t, dev.n)
        /\ IF r.cont /\ AddedSendsSlow(running[t], r.connected, config[t])
             THEN /\ dpc' = "addSend"
                  /\ dev' = [dev EXCEPT !.delta = r.connected - connected[t]]
                  /\ last' = NoCall
                  /\ UNCHANGED <<didx, total, discv5, panicked, qch, ss>>
             ELSE /\ AfterConfirmAdded(t, r.connected, call)
                  /\ UNCHANGED dev
  /\ UNCHANGED <<cfgVars, now, srvPeers, hostVars, toSearch, retry, running,
                 pch, cons, wk>>

\* t.period <- t.slowSync, and ConfirmAdded returns
AddSend ==
  /\ panicked = ""
  /\ dpc = "addSend"
  /\ LET t == topics[didx]
         call == [Call("ConfirmAdded", t, dev.n)
                    EXCEPT !.sent = "slow", !.delta = dev.delta]
     IN IF Period(t).closed
          THEN /\ panicked' = "send on closed channel"
               /\ last' = NoCall
               /\ UNCHANGED <<pch, dpc, didx, total, discv5, qch, ss>>
          ELSE /\ Len(Period(t).buf) < PeriodCap
               /\ SendPeriod(t, "slow")
               /\ AfterConfirmAdded(t, connected[t], call)
  /\ UNCHANGED <<cfgVars, now, srvPeers, hostVars, dev, toSearch, retry,
                 poolVars, running, cons, wk>>

\* The PeerDrop handler running runListener whatever stopOnMax is
DropAdvanceAlwaysRuns(ts, call) ==
  /\ toSearch' = ts
  /\ last' = call
  /\ IF didx < Len(topics)
       THEN didx' = didx + 1 /\ dpc' = "drop"
       ELSE /\ didx' = didx
            /\ dpc' = IF Len(ts) # 0 THEN "dropRun" ELSE "select"

\* What the PeerDrop handler does after t.ConfirmDropped returned for
\* topics[didx], toSearch being ts
DropAdvance(ts, call) ==
  /\ toSearch' = ts
  /\ last' = call
  /\ IF didx < Len(topics)
       THEN didx' = didx + 1 /\ dpc' = "drop"
       ELSE /\ didx' = didx
            /\ dpc' = IF Len(ts) # 0 /\ stopOnMax THEN "dropRun" ELSE "select"

\* ConfirmDropped from t.connected-- on, and the handler's BelowMin test
DropRest(t, n, sent) ==
  \E r \in ReplacementChoices(peers[t], n, now) :
    LET res == ConfirmDroppedRest(peers[t], connected[t], n, r)
    IN /\ peers' = [peers EXCEPT ![t] = res.peers]
       /\ connected' = [connected EXCEPT ![t] = res.connected]
       /\ cached' = CacheAfterDropped(cached, TopicPoolCache(hasCache), t, n)
       /\ DropAdvance(IF BelowMin(res.connected, config[t])
                        THEN Append(toSearch, t) ELSE toSearch,
                      [Call("ConfirmDropped", t, n)
                         EXCEPT !.repl = r, !.reqs = res.reqs, !.sent = sent,
                                !.delta = res.connected - connected[t]])

\* PeerEventTypeDrop: t.ConfirmDropped up to the send on t.period
DropConfirm ==
  /\ panicked = ""
  /\ dpc = "drop"
  /\ LET t == topics[didx]
     IN IF DropIgnored(peers[t], dev.n)
          THEN /\ DropAdvance(toSearch,
                              [Call("ConfirmDropped", t, dev.n) EXCEPT !.ignored = TRUE])
               /\ UNCHANGED poolVars
          ELSE IF DroppedSendsFast(running[t], connected[t], config[t])
            THEN /\ dpc' = "dropSend"
                 /\ last' = NoCall
                 /\ UNCHANGED <<poolVars, didx, toSearch>>
            ELSE DropRest(t, dev.n, "")
  /\ UNCHANGED <<cfgVars, now, discv5, srvPeers, hostVars, dev, retry, total,
                 searchVars, ss, panicked>>

\* t.period <- t.fastSync, and the rest of ConfirmDropped
DropSend ==
  /\ panicked = ""
  /\ dpc = "dropSend"
  /\ LET t == topics[didx]
     IN IF Period(t).closed
          THEN /\ panicked' = "send on closed channel"
               /\ last' = NoCall
               /\ UNCHANGED <<pch, dpc, didx, toSearch, poolVars>>
          ELSE /\ Len(Period(t).buf) < PeriodCap
               /\ SendPeriod(t, "fast")
               /\ DropRest(t, dev.n, "fast")
               /\ UNCHANGED panicked
  /\ UNCHANGED <<cfgVars, now, discv5, srvPeers, hostVars, dev, retry, total,
                 running, qch, cons, wk, ss>>

\* if len(toSearch) != 0 && p.stopOnMax { runListener() }
DropRun ==
  /\ panicked = ""
  /\ dpc = "dropRun"
  /\ RunListener(retry)
  /\ dpc' = "select"
  /\ UNCHANGED <<cfgVars, now, srvPeers, hostVars, dev, didx, total, poolVars,
                 ss, panicked>>

\* PeerPool.mu is held by the dispatch task while it handles a PeerDrop or a
\* PeerAdd event, and not while it waits in its select
PoolMuHeld == dpc \in {"add", "addSend", "addStop", "drop", "dropSend", "dropRun"}

\* ------------------------------------------------------------------ Next
Next ==
  \/ Start
  \/ \E t \in DOMAIN config : ConsumerStart(t)
  \/ \E t \in DOMAIN config, n \in Nodes \cup {SelfID} : ConsumerFound(t, n)
  \/ \E t \in DOMAIN config : ConsumerQuit(t)
  \/ \E t \in DOMAIN config : WorkerRecv(t)
  \/ \E t \in DOMAIN config : WorkerExit(t)
  \/ \E thr \in Threads : SSCloseQuit(thr)
  \/ \E thr \in Threads : SSWaitConsumer(thr)
  \/ \E thr \in Threads : SSClosePeriod(thr)
  \/ \E thr \in Threads : SSWaitWorker(thr)
  \/ Stop
  \/ StopTopic
  \/ StopReturn
  \/ DispatchQuit
  \/ \E type \in {"add", "drop"}, n \in Nodes : DispatchEvent(type, n)
  \/ DispatchRetry
  \/ AddConfirm
  \/ AddSend
  \/ DropConfirm
  \/ DropSend
  \/ DropRun

Spec == Init /\ [][Next]_vars

\* ------------------------------------------------- a started pool over time
\* A pool without stopOnMax, created with or without a cache, that is started
\* and not stopped, with mclock advancing: found nodes, PeerAdd and PeerDrop
\* events at any time.
InitClock ==
  /\ \E hc \in BOOLEAN : NewPeerPool(hc)
  /\ NoTransaction
  /\ ~stopOnMax
  /\ discv5 = "up"

NextClock ==
  \/ Start
  \/ \E t \in DOMAIN config : ConsumerStart(t)
  \/ \E t \in DOMAIN config, n \in Nodes \cup {SelfID} : ConsumerFound(t, n)
  \/ \E t \in DOMAIN config : WorkerRecv(t)
  \/ \E type \in {"add", "drop"}, n \in Nodes : DispatchEvent(type, n)
  \/ AddConfirm
  \/ AddSend
  \/ DropConfirm
  \/ DropSend
  \/ Tick

SpecClock == InitClock /\ [][NextClock]_vars

\* ------------------------------------------------- two topic pools
\* A started pool with stopOnMax and two topic pools, A with limits (1,1) and
\* B with limits (0,1) or (1,1); it is not stopped.  Discovery finds every
\* node under topic A and one of them under topic B.
TwoConfigs == {[t \in Topics |-> IF t = "A" THEN <<1, 1>> ELSE l] : l \in {<<0, 1>>, <<1, 1>>}}

\* The nodes that discovery finds under each topic
Advertises(t) == IF t = "A" THEN Nodes ELSE {MaxNodes}

InitTwo ==
  /\ PoolOf(TwoConfigs, FALSE)
  /\ NoTransaction
  /\ stopOnMax
  /\ discv5 = "up"

NextTwo ==
  \/ Start
  \/ \E t \in DOMAIN config : ConsumerStart(t)
  \/ \E t \in DOMAIN config : \E n \in Advertises(t) : ConsumerFound(t, n)
  \/ \E t \in DOMAIN config : ConsumerQuit(t)
  \/ \E t \in DOMAIN config : WorkerRecv(t)
  \/ \E t \in DOMAIN config : WorkerExit(t)
  \/ SSWaitConsumer("disp")
  \/ SSClosePeriod("disp")
  \/ SSWaitWorker("disp")
  \/ \E type \in {"add", "drop"}, n \in Nodes : DispatchEvent(type, n)
  \/ DispatchRetry
  \/ AddConfirm
  \/ AddSend
  \/ DropConfirm
  \/ DropSend
  \/ DropRun

SpecTwo == InitTwo /\ [][NextTwo]_vars

\* ------------------------------------------------- a pool that keeps going
\* A started pool with one topic pool of min >= 1 that is not stopped.  The
\* server's PeerAdd events are for nodes a topic pool tracks and has not
\* counted; its PeerDrop events are for any connected node.
LiveConfigs == {c \in Configs : \A t \in DOMAIN c : c[t][1] >= 1}

InitLive ==
  /\ PoolOf(LiveConfigs, FALSE)
  /\ NoTransaction
  /\ discv5 = "up"

Pending(t, n) == n \in DOMAIN peers[t] /\ ~peers[t][n].connected

\* PeerAdd for a node that some topic pool asked the server to connect
ServerConfirms(n) ==
  /\ \E t \in DOMAIN config : Pending(t, n)
  /\ DispatchEvent("add", n)

\* PeerAdd for a node that discovery supplies to a running search below max
ServerConfirmsFound(n) ==
  /\ \E t \in DOMAIN config : Pending(t, n) /\ running[t] /\ connected[t] < Max(t)
  /\ DispatchEvent("add", n)

\* The steps of the dispatch task once it has taken an event
DispatchSteps ==
  \/ AddConfirm
  \/ AddSend
  \/ DropConfirm
  \/ DropSend
  \/ DropRun
  \/ SSWaitConsumer("disp")
  \/ SSClosePeriod("disp")
  \/ SSWaitWorker("disp")

\* The retry timer fires and StartDiscv5 succeeds
RetrySucceeds == DispatchRetry /\ discv5' = "up"

NextLive ==
  \/ Start
  \/ \E t \in DOMAIN config : ConsumerStart(t)
  \/ \E t \in DOMAIN config, n \in Nodes : ConsumerFound(t, n)
  \/ \E t \in DOMAIN config : ConsumerQuit(t)
  \/ \E t \in DOMAIN config : WorkerRecv(t)
  \/ \E t \in DOMAIN config : WorkerExit(t)
  \/ \E n \in Nodes : ServerConfirms(n)
  \/ \E n \in Nodes : DispatchEvent("drop", n)
  \/ DispatchRetry
  \/ DispatchSteps

\* The consumer, the worker and the dispatch task are scheduled; discovery
\* keeps finding every node; the server connects the nodes found for a
\* running search; StartDiscv5 does not fail for ever.
Fairness ==
  /\ WF_vars(ConsumerStart("A"))
  /\ WF_vars(ConsumerQuit("A"))
  /\ \A n \in Nodes : WF_vars(ConsumerFound("A", n))
  /\ WF_vars(WorkerRecv("A") \/ WorkerExit("A"))
  /\ WF_vars(DispatchSteps)
  /\ WF_vars(RetrySucceeds)
  /\ \A n \in Nodes : WF_vars(ServerConfirmsFound(n))

SpecLive == InitLive /\ [][NextLive]_vars /\ Fairness

\* ------------------------------------------------------------ SendTxArgs
ByteVals == {0, 255}
BytesUpTo == {NilBytes} \cup {Bytes(b) : b \in UNION {[1..k -> ByteVals] : k \in 0..MaxLen}}

isNilOrEmpty(x) == x.nil \/ Len(x.b) = 0

\* bytes.Equal: same length and the same byte at every index
bytesEqual(x, y) ==
  /\ Len(x.b) = Len(y.b)
  /\ \A i \in 1..Len(x.b) : x.b[i] = y.b[i]

\* Valid that compares only the lengths of two filled fields
ValidLengthOnly(a) ==
  IF isNilOrEmpty(a.Input) \/ isNilOrEmpty(a.Data)
    THEN TRUE
    ELSE Len(a.Input.b) = Len(a.Data.b)

Valid(a) ==
  IF isNilOrEmpty(a.Input) \/ isNilOrEmpty(a.Data)
    THEN TRUE
    ELSE bytesEqual(a.Input, a.Data)

GetInput(a) ==
  IF ~isNilOrEmpty(a.Input) THEN a.Input ELSE a.Data

\* What the three operations leave alone: the pool
PoolUntouched ==
  UNCHANGED <<config, stopOnMax, hasCache, args, cached, now, discv5, srvPeers,
              hostVars, dispVars, poolVars, searchVars, ss, last, panicked>>

CallValid ==
  /\ txres.op = ""
  /\ txres' = [NoTx EXCEPT !.op = "Valid", !.valid = Valid(args)]
  /\ PoolUntouched

CallGetInput ==
  /\ txres.op = ""
  /\ txres' = [NoTx EXCEPT !.op = "GetInput", !.valid = Valid(args), !.input = GetInput(args)]
  /\ PoolUntouched

\* Sending a contract transaction built from args: invalid arguments are
\* answered with ErrInvalidSendTxArgs, valid ones are sent with GetInput()
SendContractTx ==
  /\ txres.op = ""
  /\ txres' = IF Valid(args)
                THEN [NoTx EXCEPT !.op = "Send", !.valid = TRUE, !.input = GetInput(args)]
                ELSE [NoTx EXCEPT !.op = "Send", !.err = "ErrInvalidSendTxArgs"]
  /\ PoolUntouched

\* Any SendTxArgs with payloads of up to MaxLen bytes, next to a pool that is
\* never started
InitTx ==
  /\ NewPeerPool(FALSE)
  /\ args \in [Input : BytesUpTo, Data : BytesUpTo]
  /\ txres = NoTx

NextTx ==
  \/ CallValid
  \/ CallGetInput
  \/ SendContractTx

SpecTx == InitTx /\ [][NextTx]_vars

\* ============================================================== properties
Pools == DOMAIN config
ConnectedPeers(t) == {n \in DOMAIN peers[t] : peers[t][n].connected}

\* C1: in every reachable state every topic pool has 0 <= connected <= max.
CountInRange ==
  \A t \in Pools : 0 <= connected[t] /\ connected[t] <= Max(t)

\* C2: in every reachable state the connected counter of every topic pool is
\* the number of entries of its peers table whose connected flag is set.
CountMatchesTable ==
  \A t \in Pools : connected[t] = Cardinality(ConnectedPeers(t))

\* C4: in every reachable state a PeerInfo with requested set is not marked
\* connected.
RequestedNotCounted ==
  \A t \in Pools : \A n \in DOMAIN peers[t] :
    peers[t][n].requested => ~peers[t][n].connected

\* The dispatch task is about to run ConfirmAdded / ConfirmDropped on topic
\* pool t for a node it tracks
AddCase(t) == dpc = "add" /\ topics[didx] = t /\ dev.n \in DOMAIN peers[t]
DropCase(t) == dpc = "drop" /\ topics[didx] = t

\* C3: ConfirmAdded for a tracked peer while connected = max leaves the counter
\* as it is, marks the peer requested and requests RemovePeer for it; and the
\* counter of no topic pool ever exceeds its max.
OverCapacityGate ==
  /\ [](\A t \in Pools : connected[t] <= Max(t))
  /\ [][\A t \in Pools :
          (AddCase(t) /\ connected[t] = Max(t) /\ AddConfirm) =>
            /\ connected'[t] = connected[t]
            /\ peers'[t][dev.n].requested
            /\ last'.op = "ConfirmAdded"
            /\ last'.reqs = {<<"RemovePeer", dev.n>>}]_vars

\* C3 witness: a PeerAdd was just turned away at the gate of a pool that
\* tracks more peers than its max
OverCapacityGateReached ==
  \E t \in Pools :
    /\ last.op = "ConfirmAdded" /\ last.t = t
    /\ <<"RemovePeer", last.n>> \in last.reqs
    /\ Max(t) > 0 /\ connected[t] = Max(t)
    /\ Cardinality(DOMAIN peers[t]) > Max(t)
    /\ peers[t][last.n].requested /\ ~peers[t][last.n].connected

\* A value is sent on a period channel of topic pool t in this step
Sent(t) ==
  /\ Len(pch'[t]) = Len(pch[t])
  /\ \E g \in 1..Len(pch[t]) : Len(pch'[t][g].buf) = Len(pch[t][g].buf) + 1

\* C5: a value is sent on a topic pool's period channel only while its search
\* is running, and no send is made on a period channel that StopSearch closed.
PeriodSentOnlyWhileRunning ==
  /\ [](panicked # "send on closed channel")
  /\ [][\A t \in Pools : Sent(t) => running[t]]_vars

\* C6: once Stop has returned, the dispatch task and the consumer and the
\* discovery worker of every topic pool have exited.
StopJoinsEveryTask ==
  hpc = "stopped" =>
    /\ dpc = "done"
    /\ \A t \in Pools : ConsumersLive(t) = {} /\ WorkersLive(t) = {}

\* C7: StopSearch closes quit, then waits for the consumer, then clears
\* running, then closes the period channel, then waits for the worker; no
\* period channel is closed while the consumer that sends on it is alive.
StopSearchOrder ==
  /\ \A thr \in Threads :
       /\ ss[thr].pc \notin {"idle", "closeQ"} => qch[ss[thr].t][ss[thr].g] = "closed"
       /\ ss[thr].pc = "waitW" => \E g \in 1..Len(pch[ss[thr].t]) : pch[ss[thr].t][g].closed
  /\ \A t \in Pools : \A g \in 1..Len(pch[t]) :
       pch[t][g].closed => cons[t][g] = "done"

\* C9: a ConfirmAdded call sends slow exactly when search is running and the
\* call raised connected from min-1 to min, a ConfirmDropped call sends fast
\* exactly when search is running and the call lowered connected from min to
\* min-1; a call that leaves connected unchanged sends nothing.
EdgeTriggered ==
  /\ last.op = "ConfirmAdded" =>
       /\ last.sent \in {"", "slow"}
       /\ last.sent = "slow" => last.delta = 1 /\ connected[last.t] = Min(last.t)
       /\ (last.delta = 1 /\ connected[last.t] = Min(last.t) /\ running[last.t])
            => last.sent = "slow"
  /\ last.op = "ConfirmDropped" =>
       /\ last.sent \in {"", "fast"}
       /\ last.sent = "fast" => last.delta = -1 /\ connected[last.t] = Min(last.t) - 1
       /\ (last.delta = -1 /\ connected[last.t] = Min(last.t) - 1 /\ running[last.t])
            => last.sent = "fast"
  /\ (last.op \in {"ConfirmAdded", "ConfirmDropped"} /\ last.delta = 0) => last.sent = ""

\* C10: ConfirmDropped for a node the pool does not track, or whose PeerInfo
\* has requested set, returns (nil, true), leaves the peers table, the counter
\* and the period channels as they are, makes no request to the server and
\* queues no search.
IgnoredDropChangesNothing ==
  [][\A t \in Pools :
       (/\ DropCase(t)
        /\ dev.n \notin DOMAIN peers[t] \/ peers[t][dev.n].requested
        /\ dpc' # dpc \/ didx' # didx) =>
         /\ UNCHANGED <<peers, connected, pch, toSearch, running>>
         /\ last'.op = "ConfirmDropped" /\ last'.t = t /\ last'.n = dev.n
         /\ last'.ignored /\ last'.repl = NoNode /\ last'.reqs = {}
         /\ last'.sent = ""]_vars

\* C10 witness: the drop of a peer with requested set was just ignored
IgnoredDropReached ==
  \E t \in Pools :
    /\ last.op = "ConfirmDropped" /\ last.t = t /\ last.ignored
    /\ last.n \in DOMAIN peers[t] /\ peers[t][last.n].requested

\* C8: a Stop on a pool that was never started or that was stopped before, and
\* a StopSearch on a topic pool whose search is not running, return in the
\* same step, close no channel, raise no panic and leave the state of the
\* pool and of its tasks as it is.
StopIsIdempotent ==
  [][/\ (pquit # "open" /\ Stop) =>
          /\ UNCHANGED <<hostVars, dispVars, poolVars, searchVars, ss, discv5, panicked>>
          /\ last'.op = "Stop" /\ last'.ignored
     /\ (StopTopic /\ ~running[topics[sidx]]) =>
          /\ UNCHANGED <<hpc, pquit, topics, subscribed, dispVars, poolVars,
                         searchVars, ss, discv5, panicked>>
          /\ sidx' = sidx + 1
          /\ last'.op = "StopSearch" /\ last'.ignored
     /\ (/\ dpc = "add" /\ AddConfirm /\ stopOnMax
         /\ MaxReached(connected'[topics[didx]], config[topics[didx]])
         /\ ~running[topics[didx]]) =>
          /\ UNCHANGED <<hostVars, searchVars, ss>>
          /\ total' = total + 1]_vars

\* C8 witness: Stop was just called again on a stopped pool with stopOnMax
\* set and a topic pool that is at its max
StopIsIdempotentReached ==
  /\ last.op = "Stop" /\ last.ignored
  /\ hpc = "stopped" /\ pquit = "closed"
  /\ stopOnMax
  /\ \E t \in Pools : Max(t) > 0 /\ connected[t] = Max(t)

\* C11: ConfirmAdded for a node the topic pool has no PeerInfo for leaves the
\* peers table, the counter, the cache and the period channels as they are
\* and makes no request to the server.
UntrackedAddChangesNothing ==
  [][\A t \in Pools :
       (/\ dpc = "add" /\ topics[didx] = t
        /\ dev.n \notin DOMAIN peers[t]
        /\ AddConfirm) =>
         /\ UNCHANGED <<peers, connected, cached, pch>>
         /\ last'.op = "ConfirmAdded" /\ last'.t = t /\ last'.n = dev.n
         /\ last'.reqs = {} /\ last'.sent = "" /\ last'.delta = 0]_vars

\* C11 witness: a PeerAdd for an untracked node was just handled by a pool
\* that tracks another peer and counts it
UntrackedAddReached ==
  \E t \in Pools :
    /\ last.op = "ConfirmAdded" /\ last.t = t
    /\ last.n \notin DOMAIN peers[t]
    /\ ConnectedPeers(t) # {} /\ connected[t] > 0

SelfNeverTracked ==
  /\ [](\A t \in Pools : SelfID \notin DOMAIN peers[t])
  /\ [][\A t \in Pools :
          (last'.op = "found" /\ last'.t = t) =>
            /\ last'.n = SelfID
            /\ UNCHANGED <<peers, connected, cached>>
            /\ last'.reqs = {}]_vars

\* C20 witness: the server's own id was just taken from the found channel of
\* a pool that tracks other nodes
SelfFoundReached ==
  /\ last.op = "found" /\ last.n = SelfID /\ last.ignored
  /\ DOMAIN peers[last.t] # {}

DiscoveryDisabledNoEffect ==
  /\ [](\A t \in Pools :
          ~running[t] =>
            /\ StartSearchErr(SearchState, t, "nil")
            /\ StartSearch(SearchState, t, "nil") = SearchState)
  /\ [](hpc = "new" =>
          /\ topics = <<>> /\ ~subscribed /\ pquit = "nil"
          /\ dpc = "none" /\ retry = "nil"
          /\ \A t \in Pools : ~running[t] /\ qch[t] = <<>> /\ pch[t] = <<>>
                                /\ cons[t] = <<>> /\ wk[t] = <<>>)
  /\ [][(discv5 = "nil" /\ Start) =>
          /\ last'.op = "Start" /\ last'.err
          /\ UNCHANGED <<hostVars, dispVars, poolVars, searchVars, ss, discv5,
                         panicked>>]_vars

\* C14 witness: Start just returned the error on a server without discovery
DiscoveryDisabledReached ==
  /\ last.op = "Start" /\ last.err
  /\ discv5 = "nil" /\ hpc = "new"

\* C15: a topic pool never has more than one live consumer nor more than one
\* live discovery worker, and StartSearch on a pool whose search is running
\* changes nothing.
AtMostOneTaskEach ==
  \A t \in Pools :
    /\ Cardinality(ConsumersLive(t)) <= 1
    /\ Cardinality(WorkersLive(t)) <= 1
    /\ running[t] => StartSearch(SearchState, t, discv5) = SearchState

\* C16: no step of StopSearch and no StartSearch changes a peers table or a
\* connected counter.
SearchLeavesPeers ==
  [][(\/ Start \/ DropRun \/ DispatchRetry \/ StopTopic
      \/ \E thr \in Threads :
           SSCloseQuit(thr) \/ SSWaitConsumer(thr) \/ SSClosePeriod(thr) \/ SSWaitWorker(thr)) =>
       UNCHANGED <<peers, connected>>]_vars

\* C16 witness: a search that was stopped has just been started again on a
\* pool that tracks and counts a peer
SearchLeavesPeersReached ==
  \E t \in Pools :
    /\ last.op = "runListener" /\ ~last.err
    /\ Len(qch[t]) > 1 /\ running[t]
    /\ connected[t] > 0 /\ ConnectedPeers(t) # {}

\* C17: DiscV5.Close() is invoked only while the server's handle is set, so
\* not a second time after the handle was cleared.
CloseOnlyOnce ==
  [][last'.closed => discv5 = "up"]_vars

\* C18: in a pool created with a cache, every peer a topic pool marks
\* connected is in the cache under that topic.
ConnectedAreCached ==
  hasCache => \A t \in Pools : \A n \in ConnectedPeers(t) : <<t, n>> \in cached

\* C19: the consumer's first send is fast if connected < min and slow
\* otherwise, and ConfirmAdded / ConfirmDropped send no period while the
\* consumer of the latest StartSearch has yet to make that send.
InitialPeriodFirst ==
  [][\A t \in Pools :
       /\ (last'.op = "handleFoundPeers" /\ last'.t = t) =>
            last'.sent = (IF connected[t] < Min(t) THEN "fast" ELSE "slow")
       /\ (Sent(t) /\ last'.op # "handleFoundPeers") =>
            cons[t][Len(cons[t])] # "start"]_vars

\* C23: while the pool's quit channel is not closed the dispatch task has
\* neither returned nor died of a panic.
DispatchExitsOnlyOnQuit ==
  pquit # "closed" => (dpc # "done" /\ panicked = "")

\* C27: a send on the period channel made inside ConfirmAdded or
\* ConfirmDropped never finds the channel full.
PeriodSendNeverBlocks ==
  (dpc \in {"addSend", "dropSend"} /\ ~Period(topics[didx]).closed) =>
    Len(Period(topics[didx]).buf) < PeriodCap

\* C28: the server's DiscV5 handle is written, and runListener is run, only
\* while the dispatch task holds PeerPool.mu.
HandleWrittenUnderLock ==
  [][(discv5' # discv5 \/ last'.op = "runListener") => PoolMuHeld]_vars

\* C29: no quit channel and no period channel is closed twice.
EachChannelClosedOnce ==
  panicked # "close of closed channel"

\* C30: when DiscV5.Close() is invoked every topic pool is at its max, its
\* search is not running and its consumers and discovery workers have exited.
CloseWhenAllStopped ==
  [][last'.closed =>
       \A t \in Pools :
         /\ connected'[t] = Max(t)
         /\ ~running'[t]
         /\ \A g \in 1..Len(cons'[t]) : cons'[t][g] = "done"
         /\ \A g \in 1..Len(wk'[t]) : wk'[t][g] = "done"]_vars

\* A payload field that is neither nil nor empty
Filled(x) == ~x.nil /\ x.b # <<>>

\* C22: Valid returns true exactly when Input or Data is nil or empty or both
\* hold the same bytes (two filled fields with different bytes are answered
\* with ErrInvalidSendTxArgs); for valid arguments GetInput returns the bytes
\* of whichever field is filled, be it Input, Data or both.
ValidAndGetInput ==
  /\ txres.op = "Valid" =>
       (txres.valid <=> (~Filled(args.Input) \/ ~Filled(args.Data)
                           \/ args.Input.b = args.Data.b))
  /\ txres.op = "Send" =>
       ((txres.err = "ErrInvalidSendTxArgs") <=>
          (Filled(args.Input) /\ Filled(args.Data) /\ args.Input.b # args.Data.b))
  /\ (txres.op \in {"GetInput", "Send"} /\ txres.valid) =>
       /\ Filled(args.Input) => txres.input.b = args.Input.b
       /\ Filled(args.Data) => txres.input.b = args.Data.b

\* C22 witness: Valid has returned false for two filled fields of the same
\* length that hold different bytes.
ValidAndGetInputReached ==
  /\ txres.op = "Valid"
  /\ ~txres.valid
  /\ Filled(args.Input)
  /\ Len(args.Input.b) = Len(args.Data.b)
  /\ args.Input.b # args.Data.b

\* The topic pools queued in toSearch
Queued == {toSearch[i] : i \in 1..Len(toSearch)}

\* C24: with stopOnMax, a ConfirmDropped that is not ignored and leaves its
\* topic pool below min appends that pool to toSearch, and no other step
\* queues a pool; when the PeerDrop handler has gone through all pools and
\* toSearch is not empty its next step is runListener; that runListener, once
\* the DiscV5 handle is there, leaves every queued pool with its search
\* running, clears toSearch, and starts no search of a pool that is not
\* queued; a pool at max whose search is stopped keeps it stopped.
DropRestartsOnlyQueued ==
  [][/\ last'.op = "ConfirmDropped" =>
          /\ toSearch' = IF ~last'.ignored /\ connected'[last'.t] < Min(last'.t)
                           THEN Append(toSearch, last'.t)
                           ELSE toSearch
          /\ (stopOnMax /\ dpc' # "drop") => (dpc' = "dropRun" <=> toSearch' # <<>>)
     /\ toSearch' # toSearch => last'.op \in {"ConfirmDropped", "runListener"}
     /\ (dpc = "dropRun" /\ dpc' # dpc) =>
          /\ last'.op = "runListener"
          /\ ~last'.err =>
               /\ discv5' = "up"
               /\ toSearch' = <<>>
               /\ \A t \in Queued : running'[t]
          /\ \A t \in Pools \ Queued : running'[t] = running[t] /\ qch'[t] = qch[t]
          /\ \A t \in Pools :
               (connected[t] = Max(t) /\ ~running[t]) => ~running'[t]]_vars

\* StartSearch can still be followed for topic pool t
CanStart(t) == Len(qch[t]) < MaxStarts

\* C21: for a started pool whose topic pool A has connected < min, with the
\* consumer, worker and dispatch tasks scheduled, discovery finding nodes,
\* the server confirming them and StartDiscv5 not failing for ever: connected
\* reaches min, unless another PeerDrop arrives first.
ConvergesToMin ==
  (hpc = "started" /\ connected["A"] < Min("A") /\ (running["A"] \/ CanStart("A")))
    ~> (connected["A"] >= Min("A") \/ dpc = "drop")

\* C21 witness: topic pool A, below min after a drop with its search
\* restarted, has counted a newly found peer and is at min again.
ConvergesToMinReached ==
  /\ hpc = "started"
  /\ Len(qch["A"]) = 2
  /\ last.op = "ConfirmAdded"
  /\ last.delta = 1
  /\ connected["A"] = Min("A")

\* C25: a runListener in which StartDiscv5 fails leaves the handle nil and
\* toSearch as it was and arms the retry timer; one in which it succeeds
\* installs the handle, starts the search of every queued topic pool and
\* clears toSearch; the timer's firing runs runListener again.  And with
\* StartDiscv5 not failing for ever in a pool that is not stopped, a queued
\* topic pool eventually has its search running.
RetryUntilRunning ==
  /\ [][last'.op = "runListener" =>
          IF last'.err
            THEN /\ discv5' = "nil"
                 /\ toSearch' = toSearch
                 /\ retry' = "armed"
            ELSE /\ discv5' = "up"
                 /\ toSearch' = <<>>
                 /\ \A t \in Queued : running'[t]]_vars
  /\ [][(retry = "armed" /\ retry' = "nil") => last'.op = "runListener"]_vars
  /\ (stopOnMax /\ "A" \in Queued /\ CanStart("A")) ~> running["A"]

\* C26: with stopOnMax, for a topic pool whose search is stopped, a
\* ConfirmDropped that is not ignored and leaves connected < max is followed
\* by the search of that pool running again, StartDiscv5 not failing for
\* ever in a pool that is not stopped.
DropBelowMaxRestarts ==
  (/\ stopOnMax
   /\ last.op = "ConfirmDropped"
   /\ ~last.ignored
   /\ connected["A"] < Max("A")
   /\ ~running["A"]
   /\ CanStart("A"))
    ~> running["A"]

\* C31: whenever runListener calls StartSearch on a topic pool, from the
\* PeerDrop handler or from the retry timer, that pool has connected < min at
\* the time of the call and is not at max.
RestartsOnlyBelowMin ==
  [][(last'.op = "runListener" /\ ~last'.err) =>
       \A t \in Queued : connected[t] < Min(t) /\ connected[t] # Max(t)]_vars

\* C32: while one PeerAdd event is dispatched to two topic pools that track
\* its node, no pool requests RemovePeer for the node when the other pool
\* counts the node as connected on the same event.
GateSparesSharedPeer ==
  [][~(/\ last.op = "ConfirmAdded"
       /\ last'.op = "ConfirmAdded"
       /\ last.n = last'.n
       /\ last.t # last'.t
       /\ dev' = dev
       /\ \/ <<"RemovePeer", last.n>> \in last.reqs /\ last'.delta = 1
          \/ last.delta = 1 /\ <<"RemovePeer", last.n>> \in last'.reqs)]_vars

\* C33: with stopOnMax false, between Start and Stop, no step calls
\* StopSearch, StartSearch, runListener (StartDiscv5) or DiscV5.Close(),
\* writes the server's DiscV5 handle, arms the retry timer, or makes or closes
\* a quit or period channel; and the search of every topic pool is running.
DiscoveryUntouched ==
  /\ []((~stopOnMax /\ hpc = "started") => \A t \in Pools : running[t])
  /\ [][(~stopOnMax /\ hpc = "started" /\ hpc' = "started") =>
          /\ discv5' = discv5
          /\ retry' = retry
          /\ running' = running
          /\ qch' = qch
          /\ \A t \in Pools :
               /\ Len(pch'[t]) = Len(pch[t])
               /\ \A g \in 1..Len(pch[t]) : pch'[t][g].closed = pch[t][g].closed
          /\ ss'["disp"] = IdleSS
          /\ last'.op \notin {"runListener", "StopSearch", "StartSearch"}
          /\ ~last'.closed]_vars

\* C33 witness: without stopOnMax a PeerDrop has left a topic pool below min
\* and queued it, and the dispatch task is back in its select with the
\* handle, the retry timer and the running search as they were.
DiscoveryUntouchedReached ==
  /\ ~stopOnMax
  /\ hpc = "started"
  /\ dpc = "select"
  /\ last.op = "ConfirmDropped"
  /\ ~last.ignored
  /\ last.t = "A"
  /\ 0 <= connected["A"]
  /\ connected["A"] < Min("A")
  /\ toSearch # <<>>
  /\ running["A"]
  /\ retry = "nil"
  /\ discv5 = "up"

====
